---- MODULE Spec2Model ----
(***************************************************************************)
(* Model of the glium backend of the nuklear GUI toolkit (src/src/lib.rs). *)
(*                                                                         *)
(* The Drawer owns a texture registry (tex), two CPU staging vectors (vbf, *)
(* ebf), two GPU buffers (vbo, ebo) and the toolkit's command buffer (cmd).*)
(* add_texture appends to the registry; draw runs one frame: it            *)
(* invalidates the GPU buffers, lets the toolkit convert its draw list     *)
(* into the staging vectors, writes them to the GPU buffers and walks the  *)
(* command list issuing one scissored draw call per non-empty command.     *)
(*                                                                         *)
(* draw is one synchronous call; pc is its position, so that the order of  *)
(* its effects and the place where an unwrap() panics can be stated.  The  *)
(* graphics layer is modelled by the operations the Drawer invokes on it,  *)
(* logged in calls in invocation order.                                    *)
(***************************************************************************)
EXTENDS Integers, Sequences, FiniteSets, TLC

VARIABLES
    tex,        \* self.tex: the registry, a sequence of texture objects
    display,    \* number of texture objects the display has created so far
    history,    \* per add_texture call, in call order: the handle returned and the texture created
    size,       \* the arguments of Drawer::new: [vbo_size, ebo_size]
    vbf,        \* self.vbf: length of the vertex staging Vec, in Vertex elements
    ebf,        \* self.ebf: length of the index staging Vec, in u16 elements
    vbo,        \* self.vbo: length of the GPU vertex buffer, in Vertex elements
    ebo,        \* self.ebo: length of the GPU index buffer, in u16 elements
    pc,         \* position inside draw, "idle" between calls, "panicked" after an unwrap() failed
    fault,      \* which unwrap() panicked
    dims,       \* (ww, hh) of the frame being drawn
    cmd,        \* the draw commands convert left in self.cmd, in iteration order
    it,         \* position of draw_command_iterator: index of the next command
    idx_start,  \* the index cursor of draw
    calls       \* operations invoked on the toolkit and the graphics layer during this frame

vars == <<tex, display, history, size, vbf, ebf, vbo, ebo, pc, fault, dims, cmd, it, idx_start, calls>>

----------------------------------------------------------------------------
(* Bounds of the model.                                                    *)

MaxTex == 2        \* at most this many add_texture calls
MaxCmds == 2       \* at most this many draw commands per frame
MaxTris == 2       \* a command draws at most this many triangles (3 indices each)
MaxVbo == 2        \* vbo_size ranges over 1..MaxVbo
MaxEboTris == 3    \* ebo_size ranges over 3, 6, .., 3*MaxEboTris
MaxOff == 2        \* scissor study: clip x, y range over -MaxOff..MaxOff
MaxExt == 3        \* scissor study: clip w, h range over 0..MaxExt
MaxDim == 3        \* scissor study: frame width and height range over 1..MaxDim

(* Program constants.                                                      *)

VertexSize == 20           \* size_of::<Vertex>(): two Vec2 of two f32 and four u8
IndexSize == 2             \* size_of::<u16>()
TriangleIndices == 3       \* PrimitiveType::TrianglesList

----------------------------------------------------------------------------
(* Option<T>: None is the empty tuple, Some(x) the one-element tuple.      *)

None == <<>>
Some(x) == <<x>>

Max(a, b) == IF a >= b THEN a ELSE b

(* Vec::capacity() of a Vec built by vec![x; n]: exactly n.                *)
Capacity(v) == v

(* `v as u32` for a float holding the integer v: the cast saturates, so a  *)
(* negative value becomes 0.  The upper end of u32 is beyond the values   *)
(* the model's clip rectangles and frame sizes can produce.               *)
AsU32(v) == IF v < 0 THEN 0 ELSE v

(* find_res as it would be with 0-based handles.                           *)
FindResZeroBased(t, id) ==
    IF id >= 0 /\ id < Len(t) THEN Some(t[id + 1]) ELSE None

(* Drawer::find_res: ids are 1-based indices into self.tex.                *)
FindRes(t, id) ==
    IF id > 0 /\ id <= Len(t) THEN Some(t[(id - 1) + 1]) ELSE None

(* The handle as it would be without the "+ 1".                            *)
NewHandleZeroBased(t) == Len(t)

(* Handle::from_id(self.tex.len() as i32 + 1)                              *)
NewHandle(t) == Len(t) + 1

(* The staging vectors and GPU buffers Drawer::new allocates.              *)
VbfLen(vbo_size) == vbo_size * VertexSize
EbfLen(ebo_size) == ebo_size * IndexSize
VboLenUnscaled(vbo_size) == vbo_size
VboLen(vbo_size) == vbo_size * VertexSize
EboLen(ebo_size) == ebo_size * IndexSize

(* The scissor without the width correction for x < 0.                     *)
ScissorRectFullWidth(x, y, w, h, hh) ==
    [left   |-> AsU32(IF x < 0 THEN 0 ELSE x),
     bottom |-> AsU32(IF y < 0 THEN 0 ELSE hh - y - h),
     width  |-> AsU32(w),
     height |-> AsU32(IF y < 0 THEN h + y ELSE h)]

(* The scissor without the vertical flip.                                  *)
ScissorRectNoFlip(x, y, w, h, hh) ==
    [left   |-> AsU32(IF x < 0 THEN 0 ELSE x),
     bottom |-> AsU32(IF y < 0 THEN 0 ELSE y),
     width  |-> AsU32(IF x < 0 THEN w + x ELSE w),
     height |-> AsU32(IF y < 0 THEN h + y ELSE h)]

(* The scissor Rect of a draw call, from the command's clip rectangle and  *)
(* the frame height hh.                                                    *)
ScissorRect(x, y, w, h, hh) ==
    [left   |-> AsU32(IF x < 0 THEN 0 ELSE x),
     bottom |-> AsU32(IF y < 0 THEN 0 ELSE hh - y - h),
     width  |-> AsU32(IF x < 0 THEN w + x ELSE w),
     height |-> AsU32(IF y < 0 THEN h + y ELSE h)]

(* The loop as it would be if it resolved the texture before the          *)
(* element-count test.                                                     *)
StepKindResolveFirst(c, t) ==
    IF FindRes(t, c.id) = None THEN "panic"
    ELSE IF c.elem_count < 1 THEN "skip"
    ELSE "draw"

(* The loop as it would be if it skipped a command it cannot resolve.      *)
StepKindSkipUnresolved(c, t) ==
    IF c.elem_count < 1 THEN "skip"
    ELSE IF FindRes(t, c.id) = None THEN "skip"
    ELSE "draw"

(* What one iteration of the dispatch loop does with a command.            *)
StepKind(c, t) ==
    IF c.elem_count < 1 THEN "skip"
    ELSE IF FindRes(t, c.id) = None THEN "panic"
    ELSE "draw"

(* The end of a range as it would be without the cursor.                   *)
IdxEndFromZero(start, count) == count

(* idx_end = idx_start + cmd.elem_count() as usize                         *)
IdxEnd(start, count) == start + count

RECURSIVE SumCounts(_)
SumCounts(list) ==
    IF list = <<>> THEN 0 ELSE list[1].elem_count + SumCounts(Tail(list))

(* The operations draw invokes before and after the conversion.            *)
InvalidateOps == <<[op |-> "invalidate", buf |-> "vbo"], [op |-> "invalidate", buf |-> "ebo"]>>

(* The upload as it would be if it wrote the index buffer only.            *)
WriteOpsIndexOnly(vf, ef) ==
    <<[op |-> "write", buf |-> "ebo", lo |-> 0, hi |-> Capacity(ef), len |-> ef]>>

WriteOps(vf, ef) ==
    <<[op |-> "write", buf |-> "vbo", lo |-> 0, hi |-> Capacity(vf), len |-> vf],
      [op |-> "write", buf |-> "ebo", lo |-> 0, hi |-> Capacity(ef), len |-> ef]>>

----------------------------------------------------------------------------
(* Inputs.                                                                 *)

ElemCounts == {TriangleIndices * k : k \in 0..MaxTris}
HandleIds == -1..(MaxTex + 1)
ClipRects == {[x |-> 0, y |-> 0, w |-> 4, h |-> 3], [x |-> -1, y |-> 1, w |-> 3, h |-> 2]}
FrameSizes == {<<4, 3>>}
ImageSizes == {<<2, 2>>}
VboSizes == 1..MaxVbo
EboSizes == {TriangleIndices * k : k \in 1..MaxEboTris}

DrawCommands == [id : HandleIds, elem_count : ElemCounts, clip : ClipRects]
CommandLists == UNION {[1..n -> DrawCommands] : n \in 0..MaxCmds}

----------------------------------------------------------------------------
(* Drawer::new                                                             *)
New(VS, ES) ==
    /\ \E v \in VS, e \in ES :
        /\ size = [vbo_size |-> v, ebo_size |-> e]
        /\ vbf = VbfLen(v)
        /\ ebf = EbfLen(e)
        /\ vbo = VboLen(v)
        /\ ebo = EboLen(e)
    /\ tex = <<>>
    /\ display = 0
    /\ history = <<>>
    /\ pc = "idle"
    /\ fault = "none"
    /\ dims = <<0, 0>>
    /\ cmd = <<>>
    /\ it = 0
    /\ idx_start = 0
    /\ calls = <<>>

(* Drawer::add_texture                                                     *)
AddTexture(limit, IS) ==
    /\ pc = "idle"
    /\ Len(tex) < limit
    /\ \E sz \in IS :
        LET t == [name |-> display + 1, width |-> sz[1], height |-> sz[2]]
            hnd == NewHandle(tex)
        IN  /\ display' = display + 1
            /\ tex' = Append(tex, t)
            /\ history' = Append(history, [hnd |-> hnd, texture |-> t])
    /\ UNCHANGED <<size, vbf, ebf, vbo, ebo, pc, fault, dims, cmd, it, idx_start, calls>>

(* Drawer::draw, lines 108-118: frame dimensions, projection, config.      *)
DrawSetup(FS) ==
    /\ pc = "idle"
    /\ \E d \in FS : dims' = d
    /\ calls' = <<>>
    /\ pc' = "invalidate"
    /\ UNCHANGED <<tex, display, history, size, vbf, ebf, vbo, ebo, fault, cmd, it, idx_start>>

(* Drawer::draw, lines 121-122.                                            *)
Invalidate ==
    /\ pc = "invalidate"
    /\ calls' = calls \o InvalidateOps
    /\ pc' = "convert"
    /\ UNCHANGED <<tex, display, history, size, vbf, ebf, vbo, ebo, fault, dims, cmd, it, idx_start>>

(* Drawer::draw, lines 124-129: the toolkit converts its draw list into    *)
(* the two byte sinks and leaves the command list in self.cmd.  The        *)
(* toolkit counts an element into a command only after it has allocated    *)
(* the element from the index sink, so the counts sum to the number of     *)
(* indices written, which fits the sink.                                   *)
Convert(CL) ==
    /\ pc = "convert"
    /\ LET vsink == Capacity(vbf)
           esink == Capacity(ebf)
       IN  \E list \in CL :
            /\ SumCounts(list) * IndexSize <= esink
            /\ cmd' = list
            /\ calls' = Append(calls, [op |-> "convert", vsink |-> vsink, esink |-> esink,
                                       indices |-> SumCounts(list)])
    /\ pc' = "write"
    /\ UNCHANGED <<tex, display, history, size, vbf, ebf, vbo, ebo, fault, dims, it, idx_start>>

(* Drawer::draw, lines 131-135: slice_mut(0..capacity) is None when the    *)
(* range leaves the buffer, write panics when the lengths differ.          *)
Write ==
    /\ pc = "write"
    /\ IF /\ Capacity(vbf) <= vbo /\ Capacity(ebf) <= ebo
          /\ vbf = Capacity(vbf) /\ ebf = Capacity(ebf)
       THEN /\ calls' = calls \o WriteOps(vbf, ebf)
            /\ pc' = "dispatch"
            /\ it' = 1
            /\ idx_start' = 0
            /\ UNCHANGED fault
       ELSE /\ pc' = "panicked"
            /\ fault' = "upload"
            /\ UNCHANGED <<calls, it, idx_start>>
    /\ UNCHANGED <<tex, display, history, size, vbf, ebf, vbo, ebo, dims, cmd>>

(* Drawer::draw, lines 138-177: one iteration of the loop.                 *)
Dispatch ==
    /\ pc = "dispatch"
    /\ it <= Len(cmd)
    /\ LET c == cmd[it]
           kind == StepKind(c, tex)
           idx_end == IdxEnd(idx_start, c.elem_count)
       IN  IF kind = "skip"
           THEN /\ it' = it + 1
                /\ UNCHANGED <<pc, fault, idx_start, calls>>
           ELSE IF kind = "panic"
           THEN /\ pc' = "panicked"
                /\ fault' = "resolve"
                /\ UNCHANGED <<it, idx_start, calls>>
           ELSE IF idx_end > ebo
           THEN /\ pc' = "panicked"
                /\ fault' = "slice"
                /\ UNCHANGED <<it, idx_start, calls>>
           ELSE /\ calls' = Append(calls,
                        [op |-> "draw", cmd |-> it, lo |-> idx_start, hi |-> idx_end,
                         texture |-> FindRes(tex, c.id)[1],
                         scissor |-> ScissorRect(c.clip.x, c.clip.y, c.clip.w, c.clip.h, dims[2])])
                /\ idx_start' = idx_end
                /\ it' = it + 1
                /\ UNCHANGED <<pc, fault>>
    /\ UNCHANGED <<tex, display, history, size, vbf, ebf, vbo, ebo, dims, cmd>>

(* The iterator is exhausted: the loop ends.                               *)
LoopEnd ==
    /\ pc = "dispatch"
    /\ it > Len(cmd)
    /\ pc' = "done"
    /\ UNCHANGED <<tex, display, history, size, vbf, ebf, vbo, ebo, fault, dims, cmd, it, idx_start, calls>>

(* draw returns: its locals and the borrowed command iterator are gone.    *)
Return ==
    /\ pc = "done"
    /\ pc' = "idle"
    /\ dims' = <<0, 0>>
    /\ cmd' = <<>>
    /\ it' = 0
    /\ idx_start' = 0
    /\ calls' = <<>>
    /\ UNCHANGED <<tex, display, history, size, vbf, ebf, vbo, ebo, fault>>

----------------------------------------------------------------------------
Init == New(VboSizes, EboSizes)

Next ==
    \/ AddTexture(MaxTex, ImageSizes)
    \/ DrawSetup(FrameSizes)
    \/ Invalidate
    \/ Convert(CommandLists)
    \/ Write
    \/ Dispatch
    \/ LoopEnd
    \/ Return

Spec == Init /\ [][Next]_vars

----------------------------------------------------------------------------
(* The scissor study: the same program, driven with one texture, frames of *)
(* every size up to MaxDim and single-command frames whose clip rectangle  *)
(* ranges over every integer rectangle within the bounds.  The toolkit     *)
(* emits clip rectangles with integer coordinates and non-negative extent. *)

StudyRects == [x : -MaxOff..MaxOff, y : -MaxOff..MaxOff, w : 0..MaxExt, h : 0..MaxExt]
StudyFrames == (1..MaxDim) \X (1..MaxDim)
StudyCommands == [id : {1}, elem_count : {TriangleIndices}, clip : StudyRects]
StudyLists == [1..1 -> StudyCommands]

InitScissor == New({1}, {TriangleIndices})

NextScissor ==
    \/ AddTexture(1, ImageSizes)
    \/ DrawSetup(StudyFrames)
    \/ Invalidate
    \/ Convert(StudyLists)
    \/ Write
    \/ Dispatch
    \/ LoopEnd
    \/ Return

SpecScissor == InitScissor /\ [][NextScissor]_vars

----------------------------------------------------------------------------
(* Properties.                                                             *)

(* The draw calls of the current frame, in the order they were issued.     *)
Draws == SelectSeq(calls, LAMBDA r : r.op = "draw")

(* The positions of the commands that draw something.                      *)
NonEmptyIdx(list) == {j \in 1..Len(list) : list[j].elem_count >= 1}

(* The list without its zero-count commands.                               *)
Compact(list) == SelectSeq(list, LAMBDA c : c.elem_count # 0)

(* The index ranges a list consumes when laid end to end from start.       *)
RECURSIVE RangesFrom(_, _)
RangesFrom(list, start) ==
    IF list = <<>> THEN <<>>
    ELSE <<(<<start, start + list[1].elem_count>>)>>
            \o RangesFrom(Tail(list), start + list[1].elem_count)

ProbeIds == (-2)..(MaxTex + 2)

(* C1: the N-th add_texture call returns the handle N: handles are 1-based, *)
(* strictly increasing, never 0 and never repeated, whatever add_texture   *)
(* and draw calls came before.                                             *)
C1_HandlesCountUp ==
    /\ Len(history) = Len(tex)
    /\ \A n \in 1..Len(history) : history[n].hnd = n
    /\ \A m, n \in 1..Len(history) : m < n => history[m].hnd < history[n].hnd

C1_Witness == Len(history) >= 2 /\ pc = "done"

(* C2: find_res of h is the texture the h-th add_texture call created when *)
(* 1 <= h <= count and None for every other id; and no step changes what a *)
(* resolvable handle resolves to.                                          *)
C2_Resolve ==
    \A h \in ProbeIds :
        FindRes(tex, h) = IF 1 <= h /\ h <= Len(history)
                          THEN Some(history[h].texture) ELSE None

C2_Stable ==
    \A h \in ProbeIds : FindRes(tex, h) # None => FindRes(tex', h) = FindRes(tex, h)

(* C2: both hold: in every state find_res is as above, and no step changes *)
(* the texture of a resolvable handle.                                      *)
C2_ResolveIsStable == []C2_Resolve /\ [][C2_Stable]_vars

C2_Witness ==
    /\ Len(history) >= 2
    /\ pc = "done"
    /\ FindRes(tex, 1) # FindRes(tex, 2)
    /\ FindRes(tex, Len(tex) + 1) = None

(* C3: within a frame the draw calls use index ranges that start at 0, are *)
(* as long as their command's element count, follow one another without    *)
(* gap or overlap in command order and, once the frame is dispatched,      *)
(* cover exactly [0, E) with one draw call per non-empty command.          *)
C3_RangesTile ==
    LET D == Draws
    IN  /\ D # <<>> => D[1].lo = 0
        /\ \A k \in 1..Len(D) : D[k].hi = D[k].lo + cmd[D[k].cmd].elem_count
        /\ \A k \in 1..(Len(D) - 1) : D[k + 1].lo = D[k].hi /\ D[k].cmd < D[k + 1].cmd
        /\ pc = "done" =>
            /\ {D[k].cmd : k \in 1..Len(D)} = NonEmptyIdx(cmd)
            /\ Len(D) = Cardinality(NonEmptyIdx(cmd))
            /\ D # <<>> => D[Len(D)].hi = SumCounts(cmd)
            /\ D = <<>> => SumCounts(cmd) = 0

C3_Witness ==
    /\ pc = "done"
    /\ Len(Draws) = 2
    /\ <<Draws[1].lo, Draws[1].hi>> = <<0, 3>>
    /\ <<Draws[2].lo, Draws[2].hi>> = <<3, 9>>

(* C4: a zero-count command issues no draw call, leaves the cursor where   *)
(* it is and does not fail the frame even when its handle is unregistered; *)
(* the frame's draw calls are those of the list without such commands.     *)
C4_ZeroStep ==
    (pc = "dispatch" /\ it <= Len(cmd) /\ cmd[it].elem_count = 0)
        => (calls' = calls /\ idx_start' = idx_start /\ pc' = pc /\ fault' = fault)

C4_AsIfAbsent ==
    pc = "done" =>
        /\ [k \in 1..Len(Draws) |-> <<Draws[k].lo, Draws[k].hi>>] = RangesFrom(Compact(cmd), 0)
        /\ [k \in 1..Len(Draws) |-> cmd[Draws[k].cmd]] = Compact(cmd)

(* C4: both hold: a zero-count step changes neither the calls nor the      *)
(* cursor, and a dispatched frame drew the list without zero-count commands. *)
C4_ZeroCountSkipped == []C4_AsIfAbsent /\ [][C4_ZeroStep]_vars

C4_Witness ==
    /\ pc = "done"
    /\ \E j, k \in 1..Len(cmd) :
        /\ j < k
        /\ cmd[j].elem_count = 0
        /\ FindRes(tex, cmd[j].id) = None
        /\ cmd[k].elem_count > 0
        /\ \E d \in 1..Len(Draws) : Draws[d].cmd = k /\ Draws[d].lo = 0

(* C5: a non-empty command whose handle does not resolve panics the frame  *)
(* there: nothing is drawn for it or after it, every draw call uses the    *)
(* texture its own command's handle resolves to, and every non-empty       *)
(* command before the current one was drawn, so a frame ends either with   *)
(* all of them drawn or at the first unresolved handle.                    *)
C5_Frame ==
    LET D == Draws
        drawn == {D[k].cmd : k \in 1..Len(D)}
    IN  /\ \A k \in 1..Len(D) : Some(D[k].texture) = FindRes(tex, cmd[D[k].cmd].id)
        /\ pc \in {"dispatch", "done", "panicked"} =>
            /\ \A j \in 1..(it - 1) : cmd[j].elem_count >= 1 => j \in drawn
            /\ \A j \in drawn : j < it
        /\ pc = "done" => it = Len(cmd) + 1
        /\ pc = "panicked" =>
            /\ fault = "resolve"
            /\ it \in 1..Len(cmd)
            /\ cmd[it].elem_count >= 1
            /\ FindRes(tex, cmd[it].id) = None

C5_PanicIsFinal == pc = "panicked" => (calls' = calls /\ pc' = pc)

(* C5: both hold: every frame state is as above, and nothing is drawn      *)
(* after the panic.                                                        *)
C5_UnresolvedAborts == []C5_Frame /\ [][C5_PanicIsFinal]_vars

C5_Witness ==
    /\ pc = "panicked"
    /\ it = 2
    /\ Len(Draws) = 1
    /\ Len(cmd) >= 2

C7_ScissorFormula ==
    /\ \A k \in 1..Len(Draws) :
        LET r == cmd[Draws[k].cmd].clip
            s == Draws[k].scissor
            H == dims[2]
        IN  /\ s.left = Max(r.x, 0)
            /\ s.width = Max(IF r.x < 0 THEN r.w + r.x ELSE r.w, 0)
            /\ s.height = Max(IF r.y < 0 THEN r.h + r.y ELSE r.h, 0)
            /\ r.y >= 0 => s.bottom = Max(H - r.y - r.h, 0)
            /\ s.left >= 0 /\ s.bottom >= 0 /\ s.width >= 0 /\ s.height >= 0
    /\ \A y \in -MaxOff..MaxOff, h \in 0..MaxExt :
        LET s == ScissorRect(-5, y, 20, h, 100)
        IN  s.left = 0 /\ s.width = 15

C7_Witness ==
    /\ pc = "done"
    /\ \E k \in 1..Len(Draws) :
        LET r == cmd[Draws[k].cmd].clip
        IN  /\ r.x < 0 /\ r.w + r.x > 0
            /\ r.y >= 0 /\ dims[2] - r.y - r.h < 0
            /\ Draws[k].scissor.width = r.w + r.x
            /\ Draws[k].scissor.bottom = 0

(* C8: for a clip rectangle inside the frame the scissor is the rectangle  *)
(* itself with the vertical axis flipped, and lies inside the frame.       *)
C8_InsideUnclamped ==
    \A k \in 1..Len(Draws) :
        LET r == cmd[Draws[k].cmd].clip
            s == Draws[k].scissor
            W == dims[1]
            H == dims[2]
        IN  (r.x >= 0 /\ r.y >= 0 /\ r.x + r.w <= W /\ r.y + r.h <= H) =>
                /\ s = [left |-> r.x, bottom |-> H - r.y - r.h, width |-> r.w, height |-> r.h]
                /\ s.left + s.width <= W
                /\ s.bottom + s.height <= H
                /\ (r.x = 0 /\ r.y = 0) => (s.left = 0 /\ s.bottom = H - r.h)

C8_Witness ==
    /\ pc = "done"
    /\ \E k \in 1..Len(Draws) :
        LET r == cmd[Draws[k].cmd].clip
        IN  /\ r.x > 0 /\ r.y > 0 /\ r.w > 0 /\ r.h > 0
            /\ r.x + r.w <= dims[1] /\ r.y + r.h <= dims[2]
            /\ Draws[k].scissor.bottom = dims[2] - r.y - r.h
            /\ Draws[k].scissor.bottom # r.y

(* C9: for a clip rectangle that starts above the frame (y < 0 < y + h)    *)
(* the scissor is the flipped visible part: height = h + y and             *)
(* bottom = H - (y + h), clamped at 0.                                     *)
C9_FlippedVisiblePart ==
    \A k \in 1..Len(Draws) :
        LET r == cmd[Draws[k].cmd].clip
            s == Draws[k].scissor
            H == dims[2]
        IN  (r.y < 0 /\ r.y + r.h > 0) =>
                /\ s.height = r.h + r.y
                /\ s.bottom = Max(H - (r.y + r.h), 0)

(* C10: the byte sinks of the conversion are V vertex records and I        *)
(* indices long and lie within the staging vectors, each upload writes     *)
(* exactly the GPU buffer's length, every draw range lies within the GPU   *)
(* index buffer and within the indices written, and no slice fails.        *)
C10_InBounds ==
    /\ fault \notin {"upload", "slice"}
    /\ \A k \in 1..Len(calls) :
        LET r == calls[k]
        IN  /\ r.op = "convert" =>
                /\ r.vsink = size.vbo_size * VertexSize
                /\ r.esink = size.ebo_size * IndexSize
                /\ r.vsink <= vbf * VertexSize
                /\ r.esink <= ebf * IndexSize
                /\ r.indices * IndexSize <= r.esink
            /\ r.op = "write" =>
                /\ r.lo = 0
                /\ r.hi = r.len
                /\ r.hi = (IF r.buf = "vbo" THEN vbo ELSE ebo)
            /\ r.op = "draw" =>
                /\ 0 <= r.lo /\ r.lo < r.hi
                /\ r.hi <= ebo
                /\ r.hi <= calls[3].indices

C10_Witness ==
    /\ pc = "done"
    /\ Len(Draws) = 2
    /\ Draws[2].hi = size.ebo_size

====
